---- MODULE Spec2Model ----
(***************************************************************************)
(* Model of .github/scripts/update_readme.py: the JUnit XML parser, the    *)
(* status classifier and the README splicer.                               *)
(*                                                                         *)
(* Text is a sequence of one-character strings.  The two marker comments   *)
(* are three-character sequences that share their first and last           *)
(* character, as the real markers share "<!-- TEST_RESULTS_" and " -->";   *)
(* searching is real substring search (str.find / in).                     *)
(*                                                                         *)
(* The later sections model concurrent update_readme calls on one README   *)
(* and the pytest fixtures under oracle/tests, mssql/tests and tests: the  *)
(* verify_mindsdb_ready polling loops and the fixtures and tests that send *)
(* SQL statements to the platform.                                         *)
(***************************************************************************)
EXTENDS Integers, Sequences, FiniteSets, TLC

VARIABLES
    readme,      \* the README file: absent, or its content
    xml,         \* the JUnit XML file
    section,     \* test_results_section of the last update_readme call
    ret,         \* what the last update_readme call returned
    before,      \* the README as it was when the last call started
    xmlBefore,   \* the XML file as it was when the last call started
    calls,       \* number of update_readme calls made
    secHist,     \* the sections of all calls, oldest first
    retHist,     \* the return values of all calls, oldest first
    result,      \* what parse_junit_xml returned
    parsed,      \* parse_junit_xml has returned
    rate,        \* the success_rate given to get_status_info
    status,      \* what get_status_info returned
    pc,          \* the statement main executes next
    argc,        \* len(sys.argv) of the run
    handler,     \* sys.argv[3]
    workflow,    \* sys.argv[4]
    environ,     \* GITHUB_SERVER_URL and GITHUB_REPOSITORY in os.environ
    clock,       \* what datetime.utcnow() returns in the run
    exitCode,    \* the exit code of the run, -1 while it runs
    trace,       \* what the run has done so far, oldest first
    runs,        \* number of runs of main started
    okRuns,      \* number of runs of main that exited with code 0
    readme0,     \* the README before the first run
    procs,       \* the concurrent update_readme calls: position and locals
    suite,       \* the test module whose fixtures and tests the session runs
    fpc,         \* the statement the session executes next
    issued,      \* the SQL commands sent to the platform, oldest first
    platform,    \* the names that exist on the platform
    platform0,   \* the names that existed when the session started
    fnRet,       \* how _create_or_replace_mssql_datasource ended
    attempt,     \* the loop variable i of verify_mindsdb_ready
    polls,       \* number of GET /api/status requests sent
    sleeps,      \* number of time.sleep(1) calls made
    resp,        \* the answer to the last GET /api/status
    value        \* what verify_mindsdb_ready returned

mainVars == <<pc, argc, handler, workflow, environ, clock, exitCode, trace, runs,
              okRuns, readme0>>

vars == <<readme, xml, section, ret, before, xmlBefore, calls, secHist,
          retHist, result, parsed, rate, status, pc, argc, handler, workflow,
          environ, clock, exitCode, trace, runs, okRuns, readme0, procs,
          suite, fpc, issued, platform, platform0, fnRet, attempt, polls,
          sleeps, resp, value>>

concVars == <<procs>>
sessionVars == <<suite, fpc, issued, platform, platform0, fnRet>>
readyVars == <<attempt, polls, sleeps, resp, value>>
extVars == <<procs, suite, fpc, issued, platform, platform0, fnRet, attempt,
             polls, sleeps, resp, value>>

spliceVars == <<readme, section, ret, before, xmlBefore, calls, secHist,
                retHist>>
parseVars == <<result, parsed>>
statusVars == <<rate, status>>

(***************************************************************************)
(* Bounds                                                                  *)
(***************************************************************************)
MaxChunks == 5
MaxCalls == 3
MaxAttr == 3
MaxNodes == 3
MaxTenths == 1200
MaxRuns == 3
MaxArgc == 6
NumProcs == 2      \* concurrent update_readme calls on one README

\* max_retries of the verify_mindsdb_ready fixtures
MaxRetries == 60
MaxRetriesMssql == 180

(***************************************************************************)
(* Text helpers                                                            *)
(***************************************************************************)
start_marker == <<"<", "S", ">">>
end_marker == <<"<", "E", ">">>

\* sub occurs in s at 0-based offset i
OccursAt(sub, s, i) ==
    /\ i >= 0
    /\ i + Len(sub) <= Len(s)
    /\ \A k \in 1..Len(sub) : s[i + k] = sub[k]

\* sub in s
Contains(sub, s) == \E i \in 0..Len(s) : OccursAt(sub, s, i)

\* s.find(sub): lowest 0-based offset of sub in s, -1 when absent
Find(sub, s) ==
    IF Contains(sub, s)
    THEN CHOOSE i \in 0..Len(s) :
            /\ OccursAt(sub, s, i)
            /\ \A j \in 0..(i - 1) : ~OccursAt(sub, s, j)
    ELSE -1

\* s[:i] and s[i:] for 0 <= i
SliceTo(s, i) == SubSeq(s, 1, IF i > Len(s) THEN Len(s) ELSE i)
SliceFrom(s, i) == SubSeq(s, i + 1, Len(s))

(***************************************************************************)
(* Files                                                                   *)
(***************************************************************************)
NoFile == [exists |-> FALSE, content |-> <<>>]
File(c) == [exists |-> TRUE, content |-> c]

(***************************************************************************)
(* update_readme                                                           *)
(***************************************************************************)
\* mutant: the file opened with "w", which truncates it before the write
M_AppendSection_Truncate(content, sec) == <<"\n", "\n">> \o sec

\* open(readme_path, "a"); f.write("\n\n"); f.write(test_results_section)
AppendSection(content, sec) == content \o <<"\n", "\n">> \o sec

\* mutant: the section inserted at the start marker, the old span kept
M_ReplaceSpan_Insert(content, sec, start_idx, end_idx) ==
    SliceTo(content, start_idx) \o sec \o SliceFrom(content, start_idx)

\* content[:start_idx] + test_results_section + content[end_idx:]
ReplaceSpan(content, sec, start_idx, end_idx) ==
    SliceTo(content, start_idx) \o sec \o SliceFrom(content, end_idx)

\* mutant: the existence check left out, so that open(.., "a") creates the file
M_ReadmeMissing_Never(file) == FALSE

\* not readme_file.exists()
ReadmeMissing(file) == ~file.exists

\* update_readme that creates the file when it is missing and empties it
\* when the marker pair is malformed before it reports the failure
M_update_readme_WriteThenFail(file, sec) ==
    IF ~file.exists
    THEN [ret |-> FALSE, wrote |-> TRUE,
          file |-> [exists |-> TRUE, content |-> <<>>]]
    ELSE IF ~Contains(start_marker, file.content)
    THEN [ret |-> TRUE, wrote |-> TRUE,
          file |-> [exists |-> TRUE,
                    content |-> file.content \o <<"\n", "\n">> \o sec]]
    ELSE IF ~Contains(end_marker, file.content)
    THEN [ret |-> FALSE, wrote |-> TRUE,
          file |-> [exists |-> TRUE, content |-> <<>>]]
    ELSE [ret |-> TRUE, wrote |-> TRUE,
          file |-> [exists |-> TRUE,
                    content |->
                       SubSeq(file.content, 1,
                              Find(start_marker, file.content))
                       \o sec
                       \o SubSeq(file.content,
                                 Find(end_marker, file.content)
                                    + Len(end_marker) + 1,
                                 Len(file.content))]]

\* the whole function: the file it leaves, whether it wrote the file and
\* the value it returns
update_readme(file, sec) ==
    IF ReadmeMissing(file)
    THEN [ret |-> FALSE, wrote |-> FALSE, file |-> file]
    ELSE LET content == file.content IN
         IF ~Contains(start_marker, content)
         THEN [ret |-> TRUE, wrote |-> TRUE,
               file |-> File(AppendSection(content, sec))]
         ELSE LET start_idx == Find(start_marker, content)
                  end_idx == Find(end_marker, content)
              IN IF start_idx = -1 \/ end_idx = -1
                 THEN [ret |-> FALSE, wrote |-> FALSE, file |-> file]
                 ELSE [ret |-> TRUE, wrote |-> TRUE,
                       file |-> File(ReplaceSpan(content, sec, start_idx,
                                                 end_idx + Len(end_marker)))]

(***************************************************************************)
(* Inputs of the splicer                                                   *)
(***************************************************************************)
Chunks == {start_marker, end_marker, <<"x">>, <<"\n">>}

RECURSIVE Flatten(_)
Flatten(cs) == IF cs = <<>> THEN <<>> ELSE Head(cs) \o Flatten(Tail(cs))

ReadmeContents ==
    {Flatten(cs) : cs \in UNION {[1..n -> Chunks] : n \in 0..MaxChunks}}

ReadmeInputs == {NoFile} \cup {File(c) : c \in ReadmeContents}

SectionInputs == {start_marker \o <<"a">> \o end_marker,
                  start_marker \o <<"b", "\n">> \o end_marker}

(***************************************************************************)
(* Numbers.  A float is kept exact as a fraction num/den with den > 0;     *)
(* the comparisons the code makes (== 100, >= 80, > 0) are decided on the  *)
(* fraction.                                                               *)
(***************************************************************************)
Rat(n, d) == [num |-> n, den |-> d]
RatEq(a, b) == a.num * b.den = b.num * a.den
RatGeq(a, b) == a.num * b.den >= b.num * a.den
RatLt(a, b) == a.num * b.den < b.num * a.den

DigitChars == {"0", "1", "2", "3", "4", "5", "6", "7", "8", "9"}

DigitVal(c) ==
    CASE c = "0" -> 0 [] c = "1" -> 1 [] c = "2" -> 2 [] c = "3" -> 3
      [] c = "4" -> 4 [] c = "5" -> 5 [] c = "6" -> 6 [] c = "7" -> 7
      [] c = "8" -> 8 [] c = "9" -> 9

DigitChar(d) ==
    CASE d = 0 -> "0" [] d = 1 -> "1" [] d = 2 -> "2" [] d = 3 -> "3"
      [] d = 4 -> "4" [] d = 5 -> "5" [] d = 6 -> "6" [] d = 7 -> "7"
      [] d = 8 -> "8" [] d = 9 -> "9"

IsDigits(s) == Len(s) >= 1 /\ \A i \in 1..Len(s) : s[i] \in DigitChars

RECURSIVE DigitsVal(_)
DigitsVal(s) ==
    IF s = <<>> THEN 0
    ELSE 10 * DigitsVal(SubSeq(s, 1, Len(s) - 1)) + DigitVal(s[Len(s)])

RECURSIVE Pow10(_)
Pow10(k) == IF k = 0 THEN 1 ELSE 10 * Pow10(k - 1)

\* str(n) for an integer n: the text an XML writer puts in an attribute
RECURSIVE NatText(_)
NatText(n) ==
    IF n < 10 THEN <<DigitChar(n)>>
    ELSE NatText(n \div 10) \o <<DigitChar(n % 10)>>

IntText(n) == IF n < 0 THEN <<"-">> \o NatText(0 - n) ELSE NatText(n)

\* int(text): an optional sign and one or more digits, ValueError otherwise
ParseInt(text) ==
    LET neg == Len(text) >= 1 /\ text[1] = "-"
        pos == Len(text) >= 1 /\ text[1] = "+"
        body == IF neg \/ pos THEN Tail(text) ELSE text
    IN IF IsDigits(body)
       THEN [ok |-> TRUE,
             val |-> IF neg THEN 0 - DigitsVal(body) ELSE DigitsVal(body)]
       ELSE [ok |-> FALSE, val |-> 0]

\* float(text): an optional sign, digits with at most one decimal point and
\* a digit on at least one side of it, ValueError otherwise
ParseFloat(text) ==
    LET neg == Len(text) >= 1 /\ text[1] = "-"
        pos == Len(text) >= 1 /\ text[1] = "+"
        body == IF neg \/ pos THEN Tail(text) ELSE text
        dots == {i \in 1..Len(body) : body[i] = "."}
        dot == IF dots = {} THEN Len(body) + 1
               ELSE CHOOSE i \in dots : \A j \in dots : i <= j
        ip == SubSeq(body, 1, dot - 1)
        fp == SubSeq(body, dot + 1, Len(body))
        wellformed == /\ Cardinality(dots) <= 1
                      /\ Len(ip) + Len(fp) >= 1
                      /\ \A i \in 1..Len(ip) : ip[i] \in DigitChars
                      /\ \A i \in 1..Len(fp) : fp[i] \in DigitChars
        mag == DigitsVal(ip) * Pow10(Len(fp)) + DigitsVal(fp)
    IN IF wellformed
       THEN [ok |-> TRUE,
             val |-> Rat(IF neg THEN 0 - mag ELSE mag, Pow10(Len(fp)))]
       ELSE [ok |-> FALSE, val |-> Rat(0, 1)]

(***************************************************************************)
(* The XML file.  A well-formed document is the sequence of its elements   *)
(* in document order, each with its tag, its depth (the root has depth 0)  *)
(* and its attributes; an attribute is absent or holds a text.             *)
(***************************************************************************)
IntAttrNames == {"tests", "failures", "errors", "skipped"}
AttrNames == IntAttrNames \cup {"time"}

Absent == [present |-> FALSE, text |-> <<>>]
Attr(t) == [present |-> TRUE, text |-> t]

Element(tag, depth, attrs) == [tag |-> tag, depth |-> depth, attrs |-> attrs]

NoXml == [exists |-> FALSE, wellformed |-> FALSE, nodes |-> <<>>]
BadXml == [exists |-> TRUE, wellformed |-> FALSE, nodes |-> <<>>]
Doc(nodes) == [exists |-> TRUE, wellformed |-> TRUE, nodes |-> nodes]

\* root.find(".//testsuite"): the first element below the root, in document
\* order, whose tag is testsuite; 0 stands for None.  The root itself is
\* not among the elements the path selects.
FindTestsuite(nodes) ==
    LET hits == {i \in 2..Len(nodes) : nodes[i].tag = "testsuite"}
    IN IF hits = {} THEN 0 ELSE CHOOSE i \in hits : \A j \in hits : i <= j

\* mutant: get(name) without the default, so that int(None) raises
M_GetInt_NoDefault(el, name) ==
    IF el.attrs[name].present THEN ParseInt(el.attrs[name].text)
    ELSE [ok |-> FALSE, val |-> 0]

\* int(testsuite.get(name, 0))
GetInt(el, name) ==
    IF el.attrs[name].present THEN ParseInt(el.attrs[name].text)
    ELSE [ok |-> TRUE, val |-> 0]

\* float(testsuite.get("time", 0))
GetFloat(el, name) ==
    IF el.attrs[name].present THEN ParseFloat(el.attrs[name].text)
    ELSE [ok |-> TRUE, val |-> Rat(0, 1)]

\* mutant: skipped tests counted as passed
M_Passed_IgnoreSkipped(total, failures, errors, skipped) ==
    total - failures - errors

\* passed = total - failures - errors - skipped
Passed(total, failures, errors, skipped) == total - failures - errors - skipped

\* mutant: the division by total left out
M_SuccessRate_NoDivide(passed, total) ==
    IF total > 0 THEN Rat(passed * 100, 1) ELSE Rat(0, 1)

\* mutant: a run without tests counts as fully passed
M_SuccessRate_EmptyPasses(passed, total) ==
    IF total > 0 THEN Rat(passed * 100, total) ELSE Rat(100, 1)

\* success_rate = (passed / total * 100) if total > 0 else 0
SuccessRate(passed, total) ==
    IF total > 0 THEN Rat(passed * 100, total) ELSE Rat(0, 1)

None == [isNone |-> TRUE, total |-> 0, passed |-> 0, failed |-> 0,
         errors |-> 0, skipped |-> 0, time |-> Rat(0, 1),
         success_rate |-> Rat(0, 1)]

Stats(total, failures, errors, skipped, time) ==
    [isNone |-> FALSE, total |-> total,
     passed |-> Passed(total, failures, errors, skipped),
     failed |-> failures, errors |-> errors, skipped |-> skipped,
     time |-> time,
     success_rate |-> SuccessRate(Passed(total, failures, errors, skipped),
                                  total)]

\* the body of the try block: it returns a value or raises
ParseBody(file) ==
    IF ~file.exists THEN [raised |-> FALSE, value |-> None]
    ELSE IF ~file.wellformed THEN [raised |-> TRUE, value |-> None]
    ELSE LET ts == FindTestsuite(file.nodes) IN
         IF ts = 0 THEN [raised |-> FALSE, value |-> None]
         ELSE LET el == file.nodes[ts]
                  total == GetInt(el, "tests")
                  failures == GetInt(el, "failures")
                  errors == GetInt(el, "errors")
                  skipped == GetInt(el, "skipped")
                  time == GetFloat(el, "time")
              IN IF /\ total.ok /\ failures.ok /\ errors.ok
                    /\ skipped.ok /\ time.ok
                 THEN [raised |-> FALSE,
                       value |-> Stats(total.val, failures.val, errors.val,
                                       skipped.val, time.val)]
                 ELSE [raised |-> TRUE, value |-> None]

\* try: ... except Exception: return None
parse_junit_xml(file) ==
    LET r == ParseBody(file) IN IF r.raised THEN None ELSE r.value

(***************************************************************************)
(* get_status_info                                                         *)
(***************************************************************************)
\* mutant: the yellow band entered with > 80 instead of >= 80
M_get_status_info_Strict(success_rate) ==
    IF RatEq(success_rate, Rat(100, 1))
    THEN [text |-> "All tests passing", color |-> "brightgreen"]
    ELSE IF ~RatGeq(Rat(80, 1), success_rate)
    THEN [text |-> "Some tests failing", color |-> "yellow"]
    ELSE [text |-> "Tests failing", color |-> "red"]

get_status_info(success_rate) ==
    IF RatEq(success_rate, Rat(100, 1))
    THEN [text |-> "All tests passing", color |-> "brightgreen"]
    ELSE IF RatGeq(success_rate, Rat(80, 1))
    THEN [text |-> "Some tests failing", color |-> "yellow"]
    ELSE [text |-> "Tests failing", color |-> "red"]

NoStatus == [text |-> "", color |-> ""]

(***************************************************************************)
(* generate_test_results_section.  A literal piece of the f-strings is one *)
(* token of the text (it holds no newline and no marker character);        *)
(* interpolated values are character sequences.                            *)
(***************************************************************************)
\* os.environ.get(name, default)
Unset == [set |-> FALSE, text |-> <<>>]
EnvVal(t) == [set |-> TRUE, text |-> t]
EnvGet(v, default) == IF v.set THEN v.text ELSE default

\* n written with at least w digits, zero padded (%m, %d, %H, %M, %Y)
RECURSIVE Pad(_, _)
Pad(n, w) ==
    IF Len(NatText(n)) >= w THEN NatText(n)
    ELSE <<"0">> \o (IF w = 1 THEN <<>> ELSE Pad(n, w - 1))

\* now.strftime('%Y-%m-%d %H:%M UTC')
Strftime(now) ==
    Pad(now.year, 4) \o <<"-">> \o Pad(now.month, 2) \o <<"-">>
       \o Pad(now.day, 2) \o <<" ">> \o Pad(now.hour, 2) \o <<":">>
       \o Pad(now.minute, 2) \o <<" UTC">>

\* format(x, ".kf"): k decimals, the nearest value, a tie to the even digit
Fixed(x, k) ==
    LET neg == x.num < 0
        n == (IF neg THEN 0 - x.num ELSE x.num) * Pow10(k)
        q0 == n \div x.den
        rem == n % x.den
        q == IF 2 * rem > x.den \/ (2 * rem = x.den /\ q0 % 2 = 1)
             THEN q0 + 1 ELSE q0
    IN (IF neg THEN <<"-">> ELSE <<>>)
          \o NatText(q \div Pow10(k)) \o <<".">> \o Pad(q % Pow10(k), k)

\* status_text.split()[1]: the status text is an emoji, a blank and the
\* words, so the second field is the first word
SplitSecond(text) ==
    CASE text = "All tests passing" -> "All"
      [] text = "Some tests failing" -> "Some"
      [] text = "Tests failing" -> "Tests"

\* mutant: every line terminated by a newline instead of joined by newlines
RECURSIVE M_JoinLines_Terminated(_)
M_JoinLines_Terminated(lines) ==
    IF lines = <<>> THEN <<>>
    ELSE Head(lines) \o <<"\n">> \o M_JoinLines_Terminated(Tail(lines))

\* "\n".join(lines)
RECURSIVE JoinLines(_)
JoinLines(lines) ==
    IF lines = <<>> THEN <<>>
    ELSE IF Len(lines) = 1 THEN Head(lines)
    ELSE Head(lines) \o <<"\n">> \o JoinLines(Tail(lines))

\* the three lines every section starts with
HeadLines == <<start_marker, <<"## Latest Test Results">>, <<>>>>

\* the lines added when stats is None
NoDataLines == <<<<"No test data available">>, <<>>, end_marker>>

\* {github_server}/{github_repo}/actions/workflows/{workflow_file}
WorkflowUrl(workflow_file, env) ==
    EnvGet(env.server, <<"https://github.com">>) \o <<"/">>
       \o EnvGet(env.repo, <<>>) \o <<"/actions/workflows/">>
       \o workflow_file

\* mutant: the Passed and Failed rows exchanged
M_StatsLines_RowsSwapped(stats, workflow_file, env, now) ==
    LET st == get_status_info(stats.success_rate) IN
    << <<"![Tests](">> \o WorkflowUrl(workflow_file, env)
          \o <<"/badge.svg", ")">>,
       <<"![Status](https://img.shields.io/badge/status-",
         SplitSecond(st.text), "-", st.color, ")">>,
       <<>>,
       <<"| Metric | Value |">>,
       <<"|--------|-------|">>,
       <<"| **Status** | ", st.text, " |">>,
       <<"| **Total Tests** | ">> \o IntText(stats.total) \o <<" |">>,
       <<"| **Failed** | ">> \o IntText(stats.failed) \o <<" |">>,
       <<"| **Passed** | ">> \o IntText(stats.passed) \o <<" |">>,
       <<"| **Errors** | ">> \o IntText(stats.errors) \o <<" |">>,
       <<"| **Skipped** | ">> \o IntText(stats.skipped) \o <<" |">>,
       <<"| **Success Rate** | ">> \o Fixed(stats.success_rate, 1)
          \o <<"% |">>,
       <<"| **Duration** | ">> \o Fixed(stats.time, 2) \o <<"s |">>,
       <<"| **Last Updated** | ">> \o Strftime(now) \o <<" |">>,
       <<>>,
       <<"[View detailed results](">> \o WorkflowUrl(workflow_file, env)
          \o <<")">>,
       <<>>,
       end_marker >>

\* the lines added for stats that are not None
StatsLines(stats, workflow_file, env, now) ==
    LET st == get_status_info(stats.success_rate) IN
    << <<"![Tests](">> \o WorkflowUrl(workflow_file, env)
          \o <<"/badge.svg", ")">>,
       <<"![Status](https://img.shields.io/badge/status-",
         SplitSecond(st.text), "-", st.color, ")">>,
       <<>>,
       <<"| Metric | Value |">>,
       <<"|--------|-------|">>,
       <<"| **Status** | ", st.text, " |">>,
       <<"| **Total Tests** | ">> \o IntText(stats.total) \o <<" |">>,
       <<"| **Passed** | ">> \o IntText(stats.passed) \o <<" |">>,
       <<"| **Failed** | ">> \o IntText(stats.failed) \o <<" |">>,
       <<"| **Errors** | ">> \o IntText(stats.errors) \o <<" |">>,
       <<"| **Skipped** | ">> \o IntText(stats.skipped) \o <<" |">>,
       <<"| **Success Rate** | ">> \o Fixed(stats.success_rate, 1)
          \o <<"% |">>,
       <<"| **Duration** | ">> \o Fixed(stats.time, 2) \o <<"s |">>,
       <<"| **Last Updated** | ">> \o Strftime(now) \o <<" |">>,
       <<>>,
       <<"[View detailed results](">> \o WorkflowUrl(workflow_file, env)
          \o <<")">>,
       <<>>,
       end_marker >>

\* mutant: the handler name written into the heading
M_generate_NamesHandler(stats, handler_name, workflow_file, env, now) ==
    JoinLines(<<start_marker,
                <<"## Latest Test Results: ", handler_name>>, <<>>>>
              \o (IF stats.isNone THEN NoDataLines
                  ELSE StatsLines(stats, workflow_file, env, now)))

\* mutant: nothing rendered when there are no stats
M_generate_NoneEmpty(stats, handler_name, workflow_file, env, now) ==
    IF stats.isNone THEN <<>>
    ELSE JoinLines(HeadLines \o StatsLines(stats, workflow_file, env, now))

\* a renderer that does not close the section of a parsed report
M_generate_Unclosed(stats, handler_name, workflow_file, env, now) ==
    IF stats.isNone THEN JoinLines(HeadLines \o NoDataLines)
    ELSE LET lines == StatsLines(stats, workflow_file, env, now)
         IN JoinLines(HeadLines \o SubSeq(lines, 1, Len(lines) - 1))

\* env are the values of GITHUB_SERVER_URL and GITHUB_REPOSITORY, now is
\* what datetime.utcnow() returns
generate_test_results_section(stats, handler_name, workflow_file, env, now) ==
    JoinLines(HeadLines \o (IF stats.isNone THEN NoDataLines
                            ELSE StatsLines(stats, workflow_file, env, now)))

(***************************************************************************)
(* Inputs of the parser                                                    *)
(***************************************************************************)
AttrInts == (-1..MaxAttr) \cup {10}

IntRaw == {Absent} \cup {Attr(IntText(n)) : n \in AttrInts}
             \cup {Attr(<<"a", "b", "c">>), Attr(<<"1", ".", "5">>)}

TimeRaw == {Absent, Attr(<<"1", "2", ".", "5">>), Attr(<<"a", "b", "c">>)}

NoAttrs == [n \in AttrNames |-> Absent]

\* <testsuites><testsuite tests=.. failures=.. errors=.. skipped=.. time=../>
SuiteDocs ==
    {Doc(<<Element("testsuites", 0, NoAttrs),
           Element("testsuite", 1,
                   [n \in AttrNames |-> IF n = "time" THEN t ELSE ia[n]])>>) :
        ia \in [IntAttrNames -> IntRaw], t \in TimeRaw}

TreeTags == {"testsuites", "testsuite", "testcase"}

TreeAttrs ==
    {[n \in AttrNames |-> IF n = "tests" THEN Attr(<<"2">>)
                          ELSE IF n = "failures" THEN Attr(<<"1">>)
                          ELSE Absent],
     [n \in AttrNames |-> IF n = "tests" THEN Attr(<<"3">>) ELSE Absent]}

\* depths of n elements in document order: the root alone has depth 0 and
\* an element lies at most one level below the element before it
DepthSeqs(n) ==
    {d \in [1..n -> 0..(n - 1)] :
        /\ d[1] = 0
        /\ \A i \in 2..n : d[i] >= 1 /\ d[i] <= d[i - 1] + 1}

TreeDocs ==
    UNION {{Doc([i \in 1..n |-> Element(tb[i][1], d[i], tb[i][2])]) :
               tb \in [1..n -> TreeTags \X TreeAttrs], d \in DepthSeqs(n)} :
           n \in 1..MaxNodes}

XmlInputs == {NoXml, BadXml} \cup SuiteDocs \cup TreeDocs

RateInputs == {Rat(n, 10) : n \in (0 - MaxTenths)..MaxTenths}

(***************************************************************************)
(* Actions                                                                 *)
(***************************************************************************)
\* one call update_readme(readme_path, test_results_section)
UpdateReadme ==
    /\ calls < MaxCalls
    /\ \E sec \in SectionInputs :
          LET r == update_readme(readme, sec) IN
          /\ readme' = r.file
          /\ ret' = r.ret
          /\ section' = sec
          /\ secHist' = Append(secHist, sec)
          /\ retHist' = Append(retHist, r.ret)
    /\ before' = readme
    /\ xmlBefore' = xml
    /\ calls' = calls + 1
    /\ UNCHANGED <<xml, result, parsed, rate, status>>
    /\ UNCHANGED mainVars
    /\ UNCHANGED extVars

\* one call parse_junit_xml(xml_path)
ParseJunitXml ==
    /\ ~parsed
    /\ result' = parse_junit_xml(xml)
    /\ parsed' = TRUE
    /\ xmlBefore' = xml
    /\ UNCHANGED <<readme, xml, section, ret, before, calls, secHist,
                   retHist, rate, status>>
    /\ UNCHANGED mainVars
    /\ UNCHANGED extVars

\* one call get_status_info(success_rate)
GetStatusInfo ==
    /\ status = NoStatus
    /\ status' = get_status_info(rate)
    /\ UNCHANGED <<readme, xml, section, ret, before, xmlBefore, calls,
                   secHist, retHist, result, parsed, rate>>
    /\ UNCHANGED mainVars
    /\ UNCHANGED extVars

(***************************************************************************)
(* Specifications                                                          *)
(***************************************************************************)
SpliceIdle ==
    /\ section = <<>>
    /\ ret = FALSE
    /\ before = NoFile
    /\ calls = 0
    /\ secHist = <<>>
    /\ retHist = <<>>

ParseIdle == result = None /\ parsed = FALSE

StatusIdle == rate = Rat(0, 1) /\ status = NoStatus

MainIdle ==
    /\ pc = "idle"
    /\ argc = 0
    /\ handler = ""
    /\ workflow = <<>>
    /\ environ = [server |-> Unset, repo |-> Unset]
    /\ clock = [year |-> 2026, month |-> 1, day |-> 2, hour |-> 23,
                minute |-> 59]
    /\ exitCode = -1
    /\ trace = <<>>
    /\ runs = 0
    /\ okRuns = 0
    /\ readme0 = NoFile

ConcIdle == procs = <<>>

SessionIdle ==
    /\ suite = "none"
    /\ fpc = "idle"
    /\ issued = <<>>
    /\ platform = {}
    /\ platform0 = {}
    /\ fnRet = "none"

ReadyIdle ==
    /\ attempt = 0
    /\ polls = 0
    /\ sleeps = 0
    /\ resp = "none"
    /\ value = "unset"

ExtIdle == ConcIdle /\ SessionIdle /\ ReadyIdle

\* the splicer called repeatedly on one README
InitSplice ==
    /\ readme \in ReadmeInputs
    /\ xml \in {NoXml, BadXml}
    /\ xmlBefore = xml
    /\ SpliceIdle
    /\ ParseIdle
    /\ StatusIdle
    /\ MainIdle
    /\ ExtIdle

NextSplice == UpdateReadme

SpecSplice == InitSplice /\ [][NextSplice]_vars

\* the parser called on one XML file
InitParse ==
    /\ xml \in XmlInputs
    /\ xmlBefore = xml
    /\ readme = NoFile
    /\ SpliceIdle
    /\ ParseIdle
    /\ StatusIdle
    /\ MainIdle
    /\ ExtIdle

NextParse == ParseJunitXml

SpecParse == InitParse /\ [][NextParse]_vars

\* the classifier called on one success rate
InitStatus ==
    /\ rate \in RateInputs
    /\ status = NoStatus
    /\ xml = NoXml
    /\ xmlBefore = xml
    /\ readme = NoFile
    /\ SpliceIdle
    /\ ParseIdle
    /\ MainIdle
    /\ ExtIdle

NextStatus == GetStatusInfo

SpecStatus == InitStatus /\ [][NextStatus]_vars

(***************************************************************************)
(* main: one run is the statements args, parse, generate, update, report;  *)
(* a later CI job starts the next run on the README the last one left.     *)
(***************************************************************************)
\* mutant: the test written as len(sys.argv) < 4
M_ArgsOk_OffByOne(n) == ~(n < 4)

\* not (len(sys.argv) < 5)
ArgsOk(n) == ~(n < 5)

\* mutant: exit code 0 whatever update_readme returned
M_ExitCode_AlwaysZero(success) == 0

\* sys.exit(0) if success else sys.exit(1)
ExitCode(success) == IF success THEN 0 ELSE 1

\* mutant: update_readme called again after a failure
M_NextPc_Retry(at, ok) ==
    CASE at = "args" -> IF ok THEN "parse" ELSE "done"
      [] at = "parse" -> "generate"
      [] at = "generate" -> "update"
      [] at = "update" -> IF ok THEN "report" ELSE "update"
      [] at = "report" -> "done"

\* the statement that follows statement at, which had outcome ok
NextPc(at, ok) ==
    CASE at = "args" -> IF ok THEN "parse" ELSE "done"
      [] at = "parse" -> "generate"
      [] at = "generate" -> "update"
      [] at = "update" -> "report"
      [] at = "report" -> "done"

\* mutant: the XML file removed once it has been read
M_XmlAfterParse_Removed(file) == NoXml

\* the XML file after parse_junit_xml: ET.parse only reads it
XmlAfterParse(file) == file

\* if len(sys.argv) < 5: print usage; sys.exit(1)
MainArgs ==
    /\ pc = "args"
    /\ pc' = NextPc("args", ArgsOk(argc))
    /\ IF ArgsOk(argc)
       THEN UNCHANGED <<trace, exitCode>>
       ELSE trace' = Append(trace, "usage") /\ exitCode' = 1
    /\ UNCHANGED <<readme, xml, section, ret, before, xmlBefore, calls,
                   secHist, retHist, result, parsed, rate, status, argc,
                   handler, workflow, environ, clock, runs, okRuns, readme0>>
    /\ UNCHANGED extVars

\* stats = parse_junit_xml(junit_xml)
MainParse ==
    /\ pc = "parse"
    /\ result' = parse_junit_xml(xml)
    /\ parsed' = TRUE
    /\ xml' = XmlAfterParse(xml)
    /\ trace' = Append(trace, "parse")
    /\ pc' = NextPc("parse", TRUE)
    /\ UNCHANGED <<readme, section, ret, before, xmlBefore, calls, secHist,
                   retHist, rate, status, argc, handler, workflow, environ,
                   clock, exitCode, runs, okRuns, readme0>>
    /\ UNCHANGED extVars

\* test_results_section = generate_test_results_section(stats, handler_name,
\* workflow_file)
MainGenerate ==
    /\ pc = "generate"
    /\ section' = generate_test_results_section(result, handler, workflow,
                                                environ, clock)
    /\ trace' = Append(trace, "generate")
    /\ pc' = NextPc("generate", TRUE)
    /\ UNCHANGED <<readme, xml, ret, before, xmlBefore, calls, secHist,
                   retHist, result, parsed, rate, status, argc, handler,
                   workflow, environ, clock, exitCode, runs, okRuns, readme0>>
    /\ UNCHANGED extVars

\* success = update_readme(readme_path, test_results_section)
MainUpdate ==
    /\ pc = "update"
    /\ LET r == update_readme(readme, section) IN
       /\ readme' = r.file
       /\ ret' = r.ret
       /\ trace' = IF r.wrote THEN trace \o <<"update", "write">>
                   ELSE Append(trace, "update")
       /\ pc' = NextPc("update", r.ret)
    /\ UNCHANGED <<xml, section, before, xmlBefore, calls, secHist, retHist,
                   result, parsed, rate, status, argc, handler, workflow,
                   environ, clock, exitCode, runs, okRuns, readme0>>
    /\ UNCHANGED extVars

\* if success: sys.exit(0) else: sys.exit(1)
MainReport ==
    /\ pc = "report"
    /\ exitCode' = ExitCode(ret)
    /\ okRuns' = IF ExitCode(ret) = 0 THEN okRuns + 1 ELSE okRuns
    /\ pc' = NextPc("report", TRUE)
    /\ UNCHANGED <<readme, xml, section, ret, before, xmlBefore, calls,
                   secHist, retHist, result, parsed, rate, status, argc,
                   handler, workflow, environ, clock, trace, runs, readme0>>
    /\ UNCHANGED extVars

Clocks ==
    {[year |-> 2026, month |-> 1, day |-> 2, hour |-> 23, minute |-> 59],
     [year |-> 2026, month |-> 11, day |-> 3, hour |-> 5, minute |-> 7]}

SuiteDoc(attrs) ==
    Doc(<<Element("testsuites", 0, NoAttrs), Element("testsuite", 1, attrs)>>)

MainXmls ==
    {NoXml, BadXml,
     SuiteDoc([n \in AttrNames |->
                  CASE n = "tests" -> Attr(<<"1", "0">>)
                    [] n = "failures" -> Attr(<<"1">>)
                    [] n = "errors" -> Attr(<<"0">>)
                    [] n = "skipped" -> Attr(<<"0">>)
                    [] n = "time" -> Attr(<<"1", "2", ".", "5">>)]),
     SuiteDoc([n \in AttrNames |->
                  IF n = "tests" THEN Attr(<<"2">>) ELSE Absent])}

MainReadmes ==
    {NoFile,
     File(<<"x">>),
     File(<<"x">> \o start_marker \o <<"y">> \o end_marker \o <<"z">>),
     File(start_marker \o <<"x">>),
     File(end_marker),
     File(end_marker \o <<"x">> \o start_marker)}

Workflows == {<<"w">>, <<"w">> \o end_marker}

Handlers == {"PostgreSQL", "Oracle"}

Environs ==
    {[server |-> Unset, repo |-> Unset],
     [server |-> EnvVal(<<"g">>), repo |-> EnvVal(<<"o", "/", "r">>)]}

\* the next CI job: a new XML file, a later time, the same command line
NewRun ==
    /\ pc = "done"
    /\ runs < MaxRuns
    /\ xml' \in MainXmls
    /\ clock' \in Clocks
    /\ xmlBefore' = xml'
    /\ before' = readme
    /\ pc' = "args"
    /\ trace' = <<>>
    /\ exitCode' = -1
    /\ runs' = runs + 1
    /\ result' = None
    /\ parsed' = FALSE
    /\ section' = <<>>
    /\ ret' = FALSE
    /\ UNCHANGED <<readme, calls, secHist, retHist, rate, status, argc,
                   handler, workflow, environ, okRuns, readme0>>
    /\ UNCHANGED extVars

InitMain ==
    /\ readme \in MainReadmes
    /\ readme0 = readme
    /\ before = readme
    /\ xml \in MainXmls
    /\ xmlBefore = xml
    /\ argc \in 1..MaxArgc
    /\ handler \in Handlers
    /\ workflow \in Workflows
    /\ environ \in Environs
    /\ clock \in Clocks
    /\ pc = "args"
    /\ trace = <<>>
    /\ exitCode = -1
    /\ runs = 1
    /\ okRuns = 0
    /\ section = <<>>
    /\ ret = FALSE
    /\ calls = 0
    /\ secHist = <<>>
    /\ retHist = <<>>
    /\ ParseIdle
    /\ StatusIdle
    /\ ExtIdle

NextMain ==
    \/ MainArgs
    \/ MainParse
    \/ MainGenerate
    \/ MainUpdate
    \/ MainReport
    \/ NewRun

SpecMain == InitMain /\ [][NextMain]_vars

(***************************************************************************)
(* Properties of update_readme (checked under SpecSplice)                  *)
(***************************************************************************)
Called == calls >= 1
HadStart == before.exists /\ Contains(start_marker, before.content)
HadEnd == before.exists /\ Contains(end_marker, before.content)

\* C1: when the README held both markers, the call succeeds and the new
\* content is the old content with one span, running from a start marker
\* through a later end marker, replaced by the section; the text before and
\* after that span is unchanged.
C1_BothMarkersReplaceSpan ==
    (Called /\ HadStart /\ HadEnd) =>
        /\ ret = TRUE
        /\ readme.exists
        /\ \E i \in 0..Len(before.content), j \in 0..Len(before.content) :
              /\ OccursAt(start_marker, before.content, i)
              /\ OccursAt(end_marker, before.content, j)
              /\ i + Len(start_marker) <= j
              /\ readme.content =
                    SliceTo(before.content, i) \o section
                       \o SliceFrom(before.content, j + Len(end_marker))

\* C2: when the README held exactly one of the two markers, the call
\* reports failure and the file is unchanged.
C2_OneMarkerFails ==
    (Called /\ before.exists /\ (HadStart # HadEnd)) =>
        (ret = FALSE /\ readme = before)

\* C3: after a successful call, two further calls with the same section
\* leave the same content as one: the second of them changes nothing.
C3_SpliceIdempotent ==
    (/\ calls >= 3
     /\ retHist[calls - 2] = TRUE
     /\ secHist[calls] = secHist[calls - 1]) => readme = before

\* C4: when the README held neither marker, the call succeeds and the new
\* content is the old content, two newlines, then the section.
C4_NoMarkerAppends ==
    (Called /\ before.exists /\ ~HadStart /\ ~HadEnd) =>
        /\ ret = TRUE
        /\ readme = File(before.content \o <<"\n", "\n">> \o section)

C4_Witness ==
    /\ Called /\ before.exists /\ ~HadStart /\ ~HadEnd
    /\ Len(before.content) > 0
    /\ ret = TRUE
    /\ Len(readme.content) = Len(before.content) + 2 + Len(section)

\* C5: when the README did not exist, the call reports failure, the README
\* still does not exist and the other file is as it was.
C5_MissingFileFails ==
    (Called /\ ~before.exists) =>
        (ret = FALSE /\ readme = NoFile /\ xml = xmlBefore)

C5_Witness == Called /\ ~before.exists /\ ret = FALSE /\ ~readme.exists

(***************************************************************************)
(* Properties of parse_junit_xml (checked under SpecParse)                 *)
(***************************************************************************)
\* the integer an attribute text was written from
IsIntText(a) == a.present /\ \E n \in AttrInts : IntText(n) = a.text
IntOf(a) == CHOOSE n \in AttrInts : IntText(n) = a.text

\* the document is <testsuites> holding one <testsuite> whose four counters
\* are integers and whose time, when present, is a number
CountedSuite ==
    /\ xml \in SuiteDocs
    /\ \A n \in IntAttrNames : IsIntText(xml.nodes[2].attrs[n])
    /\ xml.nodes[2].attrs["time"] # Attr(<<"a", "b", "c">>)

SuiteT == IntOf(xml.nodes[2].attrs["tests"])
SuiteF == IntOf(xml.nodes[2].attrs["failures"])
SuiteE == IntOf(xml.nodes[2].attrs["errors"])
SuiteS == IntOf(xml.nodes[2].attrs["skipped"])

\* C6 as stated: passed = T-F-E-S, and success_rate = 0 when T = 0,
\* otherwise (T-F-E-S)/T*100.
C6_RateZeroOnlyAtZeroTotal ==
    (parsed /\ CountedSuite) =>
        /\ ~result.isNone
        /\ result.passed = SuiteT - SuiteF - SuiteE - SuiteS
        /\ IF SuiteT = 0
           THEN RatEq(result.success_rate, Rat(0, 1))
           ELSE result.success_rate.num * SuiteT =
                   (SuiteT - SuiteF - SuiteE - SuiteS) * 100
                      * result.success_rate.den

\* C6 amended: passed = T-F-E-S without clamping, and success_rate = 0
\* when T <= 0, otherwise (T-F-E-S)/T*100.
C6_PassedAndRate ==
    (parsed /\ CountedSuite) =>
        /\ ~result.isNone
        /\ result.passed = SuiteT - SuiteF - SuiteE - SuiteS
        /\ IF SuiteT <= 0
           THEN RatEq(result.success_rate, Rat(0, 1))
           ELSE result.success_rate.num * SuiteT =
                   (SuiteT - SuiteF - SuiteE - SuiteS) * 100
                      * result.success_rate.den

C6_Witness ==
    /\ parsed /\ CountedSuite
    /\ SuiteT = 10 /\ SuiteF = 1 /\ SuiteE = 0 /\ SuiteS = 0
    /\ result.passed = 9
    /\ RatEq(result.success_rate, Rat(90, 1))

InRange(r) ==
    /\ r.total >= 0 /\ r.passed >= 0 /\ r.failed >= 0
    /\ r.errors >= 0 /\ r.skipped >= 0
    /\ RatGeq(r.success_rate, Rat(0, 1))
    /\ RatGeq(Rat(100, 1), r.success_rate)

\* C7 as stated: every returned stats value has total, passed, failed,
\* errors, skipped >= 0 and 0 <= success_rate <= 100.
C7_StatsAlwaysInRange == (parsed /\ ~result.isNone) => InRange(result)

\* C7 amended: every returned stats value whose failed, errors and skipped
\* are >= 0 and sum to at most total has total, passed >= 0 and
\* 0 <= success_rate <= 100.
C7_ConsistentStatsInRange ==
    (/\ parsed /\ ~result.isNone
     /\ result.failed >= 0 /\ result.errors >= 0 /\ result.skipped >= 0
     /\ result.failed + result.errors + result.skipped <= result.total)
        => InRange(result)

C7_Witness ==
    /\ parsed /\ ~result.isNone
    /\ result.failed > 0 /\ result.errors > 0 /\ result.skipped > 0
    /\ result.passed > 0
    /\ InRange(result)

\* the first element with tag testsuite in document order, the root
\* included; 0 when the document has none
FirstSuiteAnywhere ==
    LET hits == {i \in 1..Len(xml.nodes) : xml.nodes[i].tag = "testsuite"}
    IN IF hits = {} THEN 0 ELSE CHOOSE i \in hits : \A j \in hits : i <= j

\* the element's five attributes are absent or convert to numbers
NumericAttrs(el) ==
    /\ \A n \in IntAttrNames :
          el.attrs[n].present => ParseInt(el.attrs[n].text).ok
    /\ el.attrs["time"].present => ParseFloat(el.attrs["time"].text).ok

\* C8: the result is the null result exactly for a missing file, a file
\* that is not well-formed, a document without a testsuite element, or a
\* testsuite attribute that is not a number; otherwise it is a stats record.
C8_NullExactlyOnBadInput ==
    parsed =>
        (result.isNone <=>
            \/ ~xml.exists
            \/ ~xml.wellformed
            \/ FirstSuiteAnywhere = 0
            \/ ~NumericAttrs(xml.nodes[FirstSuiteAnywhere]))

\* C9: for a well-formed document with a testsuite element anywhere, root
\* or nested, the statistics are those of the first testsuite element in
\* document order and the result is not the null result.
C9_FirstTestsuiteAnywhere ==
    (/\ parsed /\ xml.exists /\ xml.wellformed
     /\ FirstSuiteAnywhere # 0
     /\ NumericAttrs(xml.nodes[FirstSuiteAnywhere])) =>
        LET el == xml.nodes[FirstSuiteAnywhere] IN
        /\ ~result.isNone
        /\ result.total = GetInt(el, "tests").val
        /\ result.failed = GetInt(el, "failures").val
        /\ result.errors = GetInt(el, "errors").val
        /\ result.skipped = GetInt(el, "skipped").val

(***************************************************************************)
(* Properties of get_status_info (checked under SpecStatus)                *)
(***************************************************************************)
Classified == status # NoStatus
Green == status = [text |-> "All tests passing", color |-> "brightgreen"]
Yellow == status = [text |-> "Some tests failing", color |-> "yellow"]
Red == status = [text |-> "Tests failing", color |-> "red"]

\* C10 as stated: brightgreen exactly when success_rate = 100, yellow
\* exactly when 80 <= success_rate < 100, red exactly when success_rate < 80.
C10_YellowOnlyBelow100 ==
    Classified =>
        /\ Green \/ Yellow \/ Red
        /\ Green <=> RatEq(rate, Rat(100, 1))
        /\ Yellow <=> (RatGeq(rate, Rat(80, 1)) /\ RatLt(rate, Rat(100, 1)))
        /\ Red <=> RatLt(rate, Rat(80, 1))

\* C10 amended: brightgreen exactly when success_rate = 100, yellow exactly
\* when success_rate >= 80 and success_rate # 100, red exactly when
\* success_rate < 80; so 80 is yellow, 79.9 is red and 0 is red.
C10_StatusClasses ==
    Classified =>
        /\ Green \/ Yellow \/ Red
        /\ Green <=> RatEq(rate, Rat(100, 1))
        /\ Yellow <=> (RatGeq(rate, Rat(80, 1)) /\ ~RatEq(rate, Rat(100, 1)))
        /\ Red <=> RatLt(rate, Rat(80, 1))
        /\ rate = Rat(800, 10) => Yellow
        /\ rate = Rat(799, 10) => Red
        /\ rate = Rat(0, 10) => Red

C10_Witness == Classified /\ rate = Rat(800, 10) /\ Yellow

(***************************************************************************)
(* Properties of generate_test_results_section and main (checked under     *)
(* SpecMain, C19 under SpecParse)                                          *)
(***************************************************************************)
\* the run has done e
Did(e) == \E i \in 1..Len(trace) : trace[i] = e

\* number of occurrences of sub in s
Count(sub, s) == Cardinality({i \in 0..Len(s) : OccursAt(sub, s, i)})

\* s.split("\n")
SplitLines(s) ==
    LET nl == {i \in 1..Len(s) : s[i] = "\n"}
        n == Cardinality(nl)
        pos(k) == IF k = 0 THEN 0
                  ELSE IF k = n + 1 THEN Len(s) + 1
                  ELSE CHOOSE i \in nl :
                          Cardinality({j \in nl : j < i}) = k - 1
    IN [k \in 1..(n + 1) |-> SubSeq(s, pos(k - 1) + 1, pos(k) - 1)]

\* C11: the section has the start marker as its first line and the end
\* marker as its last line; for null stats the lines between them are the
\* heading and the no-data notice (and blank lines) only.
C11_SectionBoundedByMarkers ==
    Did("generate") =>
        LET ls == SplitLines(section) IN
        /\ ls[1] = start_marker
        /\ ls[Len(ls)] = end_marker
        /\ result.isNone =>
              ls = <<start_marker, <<"## Latest Test Results">>, <<>>,
                     <<"No test data available">>, <<>>, end_marker>>

C11_Witness ==
    /\ Did("generate") /\ result.isNone
    /\ Len(SplitLines(section)) = 6
    /\ workflow = <<"w">> \o end_marker

\* the line among ls that starts with the literal piece label
LineOf(ls, label) ==
    CHOOSE i \in 1..Len(ls) : Len(ls[i]) >= 1 /\ ls[i][1] = label

HasLine(ls, label) ==
    Cardinality({i \in 1..Len(ls) : Len(ls[i]) >= 1 /\ ls[i][1] = label}) = 1

\* what stands between the label and the closing piece of that line
ValueOf(ls, label) ==
    LET l == ls[LineOf(ls, label)] IN SubSeq(l, 2, Len(l) - 1)

ElementOrder ==
    <<"![Tests](", "![Status](https://img.shields.io/badge/status-",
      "| **Status** | ", "| **Total Tests** | ", "| **Passed** | ",
      "| **Failed** | ", "| **Errors** | ", "| **Skipped** | ",
      "| **Success Rate** | ", "| **Duration** | ", "| **Last Updated** | ",
      "[View detailed results](">>

\* |a - b| <= 1/d for fractions a, b
Within(a, b, d) ==
    LET diff == a.num * b.den - b.num * a.den
        mag == IF diff < 0 THEN 0 - diff ELSE diff
    IN mag * d <= a.den * b.den

ServerText ==
    IF environ.server.set THEN environ.server.text
    ELSE <<"https://github.com">>

RepoText == IF environ.repo.set THEN environ.repo.text ELSE <<>>

\* C12: for non-null stats the section holds, in this order, the workflow
\* badge built from server/repo/actions/workflows/workflow_file/badge.svg,
\* the status badge with the classifier's color, the rows Status, Total
\* Tests, Passed, Failed, Errors, Skipped, Success Rate, Duration, Last
\* Updated and the link; each row shows its stats field.
C12_ElementsInOrder ==
    (Did("generate") /\ ~result.isNone /\ ~Contains(<<"\n">>, workflow)) =>
        LET ls == SplitLines(section) IN
        /\ \A k \in 1..Len(ElementOrder) : HasLine(ls, ElementOrder[k])
        /\ \A k \in 1..(Len(ElementOrder) - 1) :
              LineOf(ls, ElementOrder[k]) < LineOf(ls, ElementOrder[k + 1])
        /\ ValueOf(ls, "![Tests](") =
              ServerText \o <<"/">> \o RepoText \o <<"/actions/workflows/">>
                 \o workflow \o <<"/badge.svg">>
        /\ LET badge ==
                  ls[LineOf(ls,
                            "![Status](https://img.shields.io/badge/status-")]
           IN /\ badge[4] = get_status_info(result.success_rate).color
              /\ (RatEq(result.success_rate, Rat(100, 1))
                     <=> badge[4] = "brightgreen")
        /\ ParseInt(ValueOf(ls, "| **Total Tests** | ")) =
              [ok |-> TRUE, val |-> result.total]
        /\ ParseInt(ValueOf(ls, "| **Passed** | ")) =
              [ok |-> TRUE, val |-> result.passed]
        /\ ParseInt(ValueOf(ls, "| **Failed** | ")) =
              [ok |-> TRUE, val |-> result.failed]
        /\ ParseInt(ValueOf(ls, "| **Errors** | ")) =
              [ok |-> TRUE, val |-> result.errors]
        /\ ParseInt(ValueOf(ls, "| **Skipped** | ")) =
              [ok |-> TRUE, val |-> result.skipped]
        /\ ParseFloat(ValueOf(ls, "| **Success Rate** | ")).ok
        /\ Within(ParseFloat(ValueOf(ls, "| **Success Rate** | ")).val,
                  result.success_rate, 20)
        /\ ParseFloat(ValueOf(ls, "| **Duration** | ")).ok
        /\ Within(ParseFloat(ValueOf(ls, "| **Duration** | ")).val,
                  result.time, 200)
        /\ ValueOf(ls, "| **Last Updated** | ") = Strftime(clock)
        /\ ValueOf(ls, "[View detailed results](") =
              ServerText \o <<"/">> \o RepoText \o <<"/actions/workflows/">>
                 \o workflow

C12_Witness ==
    LET ls == SplitLines(section) IN
    /\ Did("generate") /\ ~result.isNone
    /\ result.total = 10 /\ result.failed = 1
    /\ ValueOf(ls, "| **Passed** | ") = <<"9">>
    /\ ValueOf(ls, "| **Success Rate** | ") = <<"9", "0", ".", "0">>
    /\ ValueOf(ls, "| **Duration** | ") = <<"1", "2", ".", "5", "0">>
    /\ ValueOf(ls, "| **Last Updated** | ") =
          <<"2", "0", "2", "6", "-", "1", "1", "-", "0", "3", " ",
            "0", "5", ":", "0", "7", " UTC">>

\* C13: with the XML, README, workflow file, environment and clock the
\* same, another handler name gives the same section, the same final
\* README and the same exit code.
C13_HandlerNameUnused ==
    \A h \in Handlers :
        LET sec == generate_test_results_section(result, h, workflow,
                                                 environ, clock)
        IN /\ Did("generate") => section = sec
           /\ (pc = "done" /\ Did("update")) =>
                 /\ readme = update_readme(before, sec).file
                 /\ exitCode = ExitCode(update_readme(before, sec).ret)

C13_Witness ==
    /\ pc = "done" /\ exitCode = 0 /\ handler = "Oracle"
    /\ ~result.isNone /\ readme # before

\* C14: the run exits with code 0 exactly when at least four arguments
\* were given and update_readme returned success, and with code 1 otherwise.
C14_ExitCode ==
    pc = "done" =>
        /\ exitCode \in {0, 1}
        /\ exitCode = 0 <=> (argc - 1 >= 4 /\ Did("update") /\ ret = TRUE)

C14_Witness ==
    pc = "done" /\ exitCode = 1 /\ argc - 1 >= 4 /\ Did("update")

NoDataBlock ==
    start_marker \o <<"\n", "## Latest Test Results", "\n", "\n",
                      "No test data available", "\n", "\n">> \o end_marker

\* the README had no marker, or a start marker with an end marker after it
SpliceableBefore ==
    /\ before.exists
    /\ \/ /\ ~Contains(start_marker, before.content)
          /\ ~Contains(end_marker, before.content)
       \/ /\ Contains(start_marker, before.content)
          /\ Contains(end_marker, before.content)
          /\ Find(start_marker, before.content)
                < Find(end_marker, before.content)

\* C15: with four arguments, an XML file that is missing or not well-formed
\* and a README without markers or with a well-formed pair, the run puts
\* the no-data block into the README and exits with code 0.
C15_BadXmlNotFatal ==
    (/\ pc = "done" /\ argc - 1 >= 4
     /\ xmlBefore \in {NoXml, BadXml}
     /\ SpliceableBefore) =>
        /\ exitCode = 0
        /\ result.isNone
        /\ Contains(NoDataBlock, readme.content)
        /\ Count(start_marker, readme.content) = 1

C15_Witness ==
    /\ pc = "done" /\ xmlBefore = BadXml
    /\ Contains(start_marker, before.content)
    /\ exitCode = 0
    /\ Contains(NoDataBlock, readme.content)

\* C16: with fewer than four arguments the run prints the usage message
\* and exits with code 1, and nothing else happens: nothing is parsed or
\* rendered and no file changes.
C16_UsageErrorFirst ==
    (pc # "idle" /\ argc - 1 < 4) =>
        /\ pc \in {"args", "done"}
        /\ ~parsed
        /\ section = <<>>
        /\ readme = before
        /\ xml = xmlBefore
        /\ pc = "done" => (exitCode = 1 /\ trace = <<"usage">>)

C16_Witness ==
    pc = "done" /\ argc - 1 = 3 /\ exitCode = 1 /\ trace = <<"usage">>

\* C17: during a run the XML file stays as it was and the README stays as
\* it was unless update_readme wrote it.
C17_OnlyReadmeWritten ==
    pc # "idle" =>
        /\ xml = xmlBefore
        /\ ~Did("write") => readme = before

C17_Witness ==
    /\ pc = "done" /\ Did("write") /\ readme # before
    /\ xml.exists /\ xml = xmlBefore

\* C18: a run is one pass: parse, generate and update happen at most once
\* and in that order, the README is written at most once, and after update
\* only the exit follows.
C18_SinglePass ==
    /\ pc \in {"args", "parse"} => trace = <<>>
    /\ pc = "generate" => trace = <<"parse">>
    /\ pc = "update" => trace = <<"parse", "generate">>
    /\ (pc \in {"report", "done"} /\ argc - 1 >= 4) =>
          trace \in {<<"parse", "generate", "update">>,
                     <<"parse", "generate", "update", "write">>}
    /\ (pc = "done" /\ argc - 1 < 4) => trace = <<"usage">>

C18_Witness ==
    /\ pc = "done" /\ exitCode = 1
    /\ trace = <<"parse", "generate", "update">>

\* C19: an absent attribute counts as 0; a testsuite without tests
\* attribute gives a stats record with total 0 and success_rate 0.
C19_AbsentAttributeIsZero ==
    (/\ parsed /\ xml \in SuiteDocs
     /\ \A n \in IntAttrNames :
           xml.nodes[2].attrs[n].present => IsIntText(xml.nodes[2].attrs[n])
     /\ xml.nodes[2].attrs["time"] # Attr(<<"a", "b", "c">>)) =>
        LET a == xml.nodes[2].attrs
            v(n) == IF a[n].present THEN IntOf(a[n]) ELSE 0
        IN /\ ~result.isNone
           /\ result.total = v("tests")
           /\ result.failed = v("failures")
           /\ result.errors = v("errors")
           /\ result.skipped = v("skipped")
           /\ ~a["time"].present => RatEq(result.time, Rat(0, 1))
           /\ ~a["tests"].present =>
                 (result.total = 0 /\ RatEq(result.success_rate, Rat(0, 1)))

C19_Witness ==
    /\ parsed /\ xml \in SuiteDocs
    /\ ~xml.nodes[2].attrs["tests"].present
    /\ xml.nodes[2].attrs["failures"] = Attr(<<"1">>)
    /\ ~xml.nodes[2].attrs["time"].present
    /\ ~result.isNone /\ result.total = 0 /\ result.failed = 1

\* every run so far exited with code 0 and the first README had no marker
AllRunsOkFromPlain ==
    /\ pc = "done" /\ okRuns = runs
    /\ readme0.exists
    /\ ~Contains(start_marker, readme0.content)
    /\ ~Contains(end_marker, readme0.content)

OneRegion ==
    /\ Count(start_marker, readme.content) = 1
    /\ Count(end_marker, readme.content) = 1
    /\ Find(start_marker, readme.content) < Find(end_marker, readme.content)
    /\ SliceTo(readme.content, Len(readme0.content)) = readme0.content

NoMarkerIn(t) == ~Contains(start_marker, t) /\ ~Contains(end_marker, t)

C21_FailureLeavesReadme ==
    (Called /\ ~ret) =>
        /\ readme = before
        /\ readme.exists = before.exists
        /\ ~update_readme(before, section).wrote

C21_Witness ==
    /\ Called
    /\ ~ret
    /\ before.exists
    /\ Contains(start_marker, before.content)
    /\ Len(before.content) > Len(start_marker)

C21_WitnessAbsent == Called /\ ~ret /\ ~before.exists /\ ~readme.exists

(***************************************************************************)
(* C22: provided the workflow filename and the GITHUB_SERVER_URL and       *)
(* GITHUB_REPOSITORY values hold no marker text, a rendered section holds  *)
(* the start marker exactly once and the end marker exactly once, and the  *)
(* start marker comes first.                                               *)
(***************************************************************************)
C22_OneMarkerPair ==
    (/\ Did("generate")
     /\ NoMarkerIn(workflow)
     /\ NoMarkerIn(ServerText)
     /\ NoMarkerIn(RepoText)) =>
        /\ Count(start_marker, section) = 1
        /\ Count(end_marker, section) = 1
        /\ Find(start_marker, section) < Find(end_marker, section)

C22_Witness ==
    /\ Did("generate")
    /\ ~result.isNone
    /\ environ.server.set
    /\ environ.repo.set
    /\ NoMarkerIn(workflow)
    /\ Count(end_marker, section) = 1

\* the proviso is needed: a workflow filename that holds the end marker
\* puts it into the section three times
C22_ProvisoNeeded ==
    /\ Did("generate")
    /\ ~result.isNone
    /\ ~NoMarkerIn(workflow)
    /\ Count(end_marker, section) > 1

(***************************************************************************)
(* C24: the returned success_rate is 100, and so the status is "All tests  *)
(* passing", exactly when total > 0 and failures + errors + skipped = 0;   *)
(* one more skipped test gives the same rate as one more failed test, and  *)
(* a run with zero tests is never reported as passing.                     *)
(***************************************************************************)
AllPassing(r) ==
    r.total > 0 /\ r.failed + r.errors + r.skipped = 0

C24_WitnessSkipped ==
    /\ parsed /\ ~result.isNone
    /\ result.total = 2
    /\ result.failed = 0 /\ result.errors = 0 /\ result.skipped = 1
    /\ RatEq(result.success_rate, Rat(50, 1))

C24_WitnessEmpty ==
    /\ parsed /\ ~result.isNone
    /\ result.total = 0
    /\ AllPassing(result) = FALSE
    /\ RatEq(result.success_rate, Rat(0, 1))

(***************************************************************************)
(* Concurrent update_readme calls on one README.  A call is three steps:   *)
(* the exists() test, the whole-file read, and the rest of the function,   *)
(* which writes the file at most once; each step is atomic and the steps   *)
(* of different calls interleave freely.                                   *)
(***************************************************************************)
\* mutant: the new text is written over the file in place, and what the
\* file held beyond the new text stays
M_WriteStep_InPlace(current, content, sec) ==
    IF ~Contains(start_marker, content)
    THEN [ret |-> TRUE,
          file |-> [exists |-> TRUE,
                    content |-> current.content \o <<"\n", "\n">> \o sec]]
    ELSE IF ~Contains(end_marker, content)
    THEN [ret |-> FALSE, file |-> current]
    ELSE LET new == SubSeq(content, 1, Find(start_marker, content))
                    \o sec
                    \o SubSeq(content,
                              Find(end_marker, content) + Len(end_marker) + 1,
                              Len(content))
         IN [ret |-> TRUE,
             file |-> [exists |-> TRUE,
                       content |-> new \o SubSeq(current.content,
                                                 Len(new) + 1,
                                                 Len(current.content))]]

\* what a call that has read content does to the file as it is now: the
\* append goes to the end of the current file, write_text replaces it
WriteStep(current, content, sec) ==
    IF ~Contains(start_marker, content)
    THEN [ret |-> TRUE,
          file |-> File(AppendSection(current.content, sec))]
    ELSE LET start_idx == Find(start_marker, content)
             end_idx == Find(end_marker, content)
         IN IF start_idx = -1 \/ end_idx = -1
            THEN [ret |-> FALSE, file |-> current]
            ELSE [ret |-> TRUE,
                  file |-> File(ReplaceSpan(content, sec, start_idx,
                                            end_idx + Len(end_marker)))]

Procs == 1..NumProcs

ConcUnchanged ==
    /\ UNCHANGED <<xml, section, ret, before, xmlBefore, calls, secHist,
                   retHist, result, parsed, rate, status>>
    /\ UNCHANGED mainVars
    /\ UNCHANGED sessionVars
    /\ UNCHANGED readyVars

\* if not readme_file.exists(): return False
ConcExists(p) ==
    /\ procs[p].pc = "exists"
    /\ procs' = [procs EXCEPT ![p].pc = IF ReadmeMissing(readme) THEN "done"
                                        ELSE "read"]
    /\ UNCHANGED readme
    /\ ConcUnchanged

\* content = readme_file.read_text()
ConcRead(p) ==
    /\ procs[p].pc = "read"
    /\ procs' = [procs EXCEPT ![p].pc = "write",
                              ![p].content = readme.content]
    /\ UNCHANGED readme
    /\ ConcUnchanged

\* the marker tests and the one write, or the failure return
ConcWrite(p) ==
    /\ procs[p].pc = "write"
    /\ LET w == WriteStep(readme, procs[p].content, procs[p].sec) IN
       /\ readme' = w.file
       /\ procs' = [procs EXCEPT ![p].pc = "done", ![p].ret = w.ret]
    /\ ConcUnchanged

ConcMids == {<<>>, <<"o">>, <<"o", "o", "o", "o", "o", "o">>}

ConcReadmes ==
    {NoFile, File(<<"x">>), File(start_marker \o <<"x">>)}
    \cup {File(pre \o start_marker \o mid \o end_marker \o post) :
             pre \in {<<>>, <<"x">>, <<"x", "\n">>},
             mid \in ConcMids,
             post \in {<<>>, <<"\n", "x">>}}

InitConc ==
    /\ readme \in ConcReadmes
    /\ procs \in [Procs -> {[pc |-> "exists", content |-> <<>>, sec |-> sec,
                             ret |-> FALSE] : sec \in SectionInputs}]
    /\ xml = NoXml
    /\ xmlBefore = xml
    /\ SpliceIdle
    /\ ParseIdle
    /\ StatusIdle
    /\ pc = "idle" /\ argc = 0 /\ handler = "" /\ workflow = <<>>
    /\ environ = [server |-> Unset, repo |-> Unset]
    /\ clock = [year |-> 2026, month |-> 1, day |-> 2, hour |-> 23,
                minute |-> 59]
    /\ exitCode = -1 /\ trace = <<>> /\ runs = 0 /\ okRuns = 0
    /\ readme0 = readme
    /\ SessionIdle
    /\ ReadyIdle

NextConc ==
    \/ \E p \in Procs : ConcExists(p)
    \/ \E p \in Procs : ConcRead(p)
    \/ \E p \in Procs : ConcWrite(p)

SpecConc == InitConc /\ [][NextConc]_vars

\* the README holds exactly one marker region, start marker first
WellFormedRegion(file) ==
    /\ file.exists
    /\ Count(start_marker, file.content) = 1
    /\ Count(end_marker, file.content) = 1
    /\ Find(start_marker, file.content) < Find(end_marker, file.content)

AllDone == \A p \in Procs : procs[p].pc = "done"

\* the READMEs the calls of the set ps can leave when they run one after
\* the other, in any order
RECURSIVE SerialResults(_, _)
SerialResults(file, ps) ==
    IF ps = {} THEN {file}
    ELSE UNION {SerialResults(update_readme(file, procs[p].sec).file,
                              ps \ {p}) : p \in ps}

TextBefore == SliceTo(readme0.content, Find(start_marker, readme0.content))
TextAfter ==
    SliceFrom(readme0.content,
              Find(end_marker, readme0.content) + Len(end_marker))

ReadyFixtures == {"oracle_tpch", "tests", "mssql", "oracle"}

max_retries(f) == IF f = "mssql" THEN MaxRetriesMssql ELSE MaxRetries

\* range(max_retries), or range(1, max_retries + 1) in the MS SQL fixture
FirstI(f) == IF f = "mssql" THEN 1 ELSE 0
LastI(f) == FirstI(f) + max_retries(f) - 1

\* mutant: the sleep is not guarded
M_SleepsAfter_Always(f, i) == TRUE

\* if i < max_retries - 1 (if i < max_retries in the MS SQL fixture)
SleepsAfter(f, i) ==
    IF f = "mssql" THEN i < max_retries(f) ELSE i < max_retries(f) - 1

\* the two conftest fixtures raise in the else branch of that test, the
\* other two after the loop
RaisesInLoop(f) == f \in {"tests", "oracle"}

StatusAnswers == {"200", "503", "RequestException"}

ReadyUnchanged ==
    /\ UNCHANGED <<readme, xml, section, ret, before, xmlBefore, calls,
                   secHist, retHist, result, parsed, rate, status>>
    /\ UNCHANGED mainVars
    /\ UNCHANGED <<procs, suite, issued, platform, platform0, fnRet>>

\* one iteration of the for loop
PollStatus ==
    /\ fpc = "poll"
    /\ attempt <= LastI(suite)
    /\ \E answer \in StatusAnswers :
          /\ resp' = answer
          /\ polls' = polls + 1
          /\ IF answer = "200"
             THEN /\ fpc' = "returned"
                  /\ value' = "url"
                  /\ UNCHANGED <<attempt, sleeps>>
             ELSE IF SleepsAfter(suite, attempt)
             THEN /\ sleeps' = sleeps + 1
                  /\ attempt' = attempt + 1
                  /\ UNCHANGED <<fpc, value>>
             ELSE IF RaisesInLoop(suite)
             THEN /\ fpc' = "raised"
                  /\ UNCHANGED <<attempt, sleeps, value>>
             ELSE /\ attempt' = attempt + 1
                  /\ UNCHANGED <<fpc, sleeps, value>>
    /\ ReadyUnchanged

\* the range is exhausted: the statement after the loop, or the end of the
\* function body, which returns None
LoopExit ==
    /\ fpc = "poll"
    /\ attempt > LastI(suite)
    /\ IF RaisesInLoop(suite)
       THEN fpc' = "returned" /\ value' = "None"
       ELSE fpc' = "raised" /\ UNCHANGED value
    /\ UNCHANGED <<attempt, polls, sleeps, resp>>
    /\ ReadyUnchanged

InitReady ==
    /\ suite \in ReadyFixtures
    /\ fpc = "poll"
    /\ attempt = FirstI(suite)
    /\ polls = 0
    /\ sleeps = 0
    /\ resp = "none"
    /\ value = "unset"
    /\ issued = <<>>
    /\ platform = {}
    /\ platform0 = {}
    /\ fnRet = "none"
    /\ readme = NoFile
    /\ xml = NoXml
    /\ xmlBefore = xml
    /\ SpliceIdle
    /\ ParseIdle
    /\ StatusIdle
    /\ MainIdle
    /\ ConcIdle

NextReady == PollStatus \/ LoopExit

SpecReady == InitReady /\ [][NextReady]_vars

(***************************************************************************)
(* C27: each verify_mindsdb_ready fixture sends at most max_retries polls  *)
(* (60, or 180 for MS SQL), returns the base URL right after the first     *)
(* answer 200 and polls no more, raises when none of the max_retries       *)
(* answers was 200 and never returns None; a connection error counts as a  *)
(* failed attempt, and no sleep follows the last attempt.                  *)
(***************************************************************************)
ReadyInv ==
    /\ polls <= max_retries(suite)
    /\ sleeps <= max_retries(suite) - 1
    /\ value # "None"
    /\ (fpc = "returned") =>
          /\ value = "url"
          /\ resp = "200"
          /\ sleeps = polls - 1
    /\ (fpc = "raised") =>
          /\ value = "unset"
          /\ resp \in {"503", "RequestException"}
          /\ polls = max_retries(suite)
          /\ sleeps = polls - 1
    /\ (fpc = "poll") =>
          /\ resp # "200"
          /\ sleeps = IF polls = max_retries(suite) THEN polls - 1 ELSE polls

ReadyStep ==
    /\ (polls' # polls) => (fpc = "poll" /\ resp # "200" /\ polls' = polls + 1)
    /\ (sleeps' # sleeps) => (resp' # "200" /\ polls' < max_retries(suite))
    /\ (fpc = "poll" /\ polls = max_retries(suite)) => fpc' = "raised"
    /\ (fpc = "poll" /\ resp' = "200") => (fpc' = "returned" /\ value' = "url")

C27_PollsBounded == []ReadyInv /\ [][ReadyStep]_vars

\* the last attempt failed on a connection error and the fixture raised
C27_Witness ==
    /\ suite = "mssql"
    /\ fpc = "raised"
    /\ polls = MaxRetriesMssql
    /\ sleeps = MaxRetriesMssql - 1
    /\ resp = "RequestException"

C27_WitnessReturned ==
    /\ suite = "tests"
    /\ fpc = "returned"
    /\ polls = MaxRetries
    /\ value = "url"

(***************************************************************************)
(* The fixtures and tests that send SQL to the platform: the               *)
(* mindsdb_connection fixture of the Oracle TPC-H test module, the         *)
(* mindsdb_connection fixture of mssql/tests/conftest.py with its two      *)
(* helpers, and the knowledge base tests in file order.  The platform is   *)
(* the set of names that exist on it; verify_mindsdb_ready has returned.   *)
(***************************************************************************)
ORACLE_TPCH_DB == "ORACLE_TPCH_DB"
MSSQL_DB == "MSSQL_DB"
\* the name in the CREATE KNOWLEDGE BASE statement of the create test and
\* the name in the DROP KNOWLEDGE BASE statement of the cleanup test
KbCreateName == "oracle_regions_kb"
KbCleanupName == "oracle_kb"

Cmd(verb, name, clause) == [verb |-> verb, name |-> name, clause |-> clause]

\* the statement the Oracle TPC-H fixture builds
OracleCreateSql == Cmd("CREATE DATABASE", ORACLE_TPCH_DB, "")
\* sql_create
MssqlCreateSql == Cmd("CREATE DATABASE", MSSQL_DB, "")
MssqlDropSql == Cmd("DROP DATABASE", MSSQL_DB, "")

\* error texts, in lower case: the name exists already; a failure whose
\* text holds the word for another reason; a failure that does not
AlreadyExistsMsg == <<"database", " ", "already", " ", "exists">>
FileExistsMsg == <<"file", " ", "exists">>
OtherMsg == <<"timeout">>
NotFoundMsg == <<"database", " ", "does", " ", "not", " ", "exist">>

Answer(ok, msg, names) == [ok |-> ok, msg |-> msg, names |-> names]

\* what one POST /api/sql/query can do: the statement takes effect and
\* the call returns, or the call raises with the error text
execute_sql_via_mindsdb(cmd, names) ==
    {Answer(FALSE, FileExistsMsg, names), Answer(FALSE, OtherMsg, names)}
    \cup
    (IF cmd.verb \in {"CREATE DATABASE", "CREATE KNOWLEDGE BASE"}
     THEN IF cmd.name \notin names
          THEN {Answer(TRUE, <<>>, names \cup {cmd.name})}
          ELSE IF cmd.clause = "IF NOT EXISTS"
          THEN {Answer(TRUE, <<>>, names)}
          ELSE {Answer(FALSE, AlreadyExistsMsg, names)}
     ELSE IF cmd.verb \in {"DROP DATABASE", "DROP KNOWLEDGE BASE",
                           "DROP MODEL"}
     THEN IF cmd.name \in names
          THEN {Answer(TRUE, <<>>, names \ {cmd.name})}
          ELSE IF cmd.clause = "IF EXISTS"
          THEN {Answer(TRUE, <<>>, names)}
          ELSE {Answer(FALSE, NotFoundMsg, names)}
     ELSE IF cmd.verb = "CREATE OR REPLACE VIEW"
     THEN {Answer(TRUE, <<>>, names \cup {cmd.name})}
     ELSE {Answer(TRUE, <<>>, names)})

\* mutant: no error text counts as "exists"
M_ExistsTest_Never(msg) == FALSE

\* "already exists" in msg.lower() or "exists" in msg.lower()
ExistsTest(msg) ==
    \/ Contains(<<"already", " ", "exists">>, msg)
    \/ Contains(<<"exists">>, msg)

SessionUnchanged ==
    /\ UNCHANGED <<readme, xml, section, ret, before, xmlBefore, calls,
                   secHist, retHist, result, parsed, rate, status>>
    /\ UNCHANGED mainVars
    /\ UNCHANGED <<procs, suite, platform0>>
    /\ UNCHANGED readyVars

\* the statement is sent and answered with a
Send(cmd, a) ==
    /\ a \in execute_sql_via_mindsdb(cmd, platform)
    /\ issued' = Append(issued, [cmd |-> cmd, ok |-> a.ok, msg |-> a.msg])
    /\ platform' = a.names

\* Oracle TPC-H fixture: execute_sql_via_mindsdb(sql, timeout=60)
OracleCreate ==
    /\ suite = "oracle_tpch" /\ fpc = "create"
    /\ \E a \in execute_sql_via_mindsdb(OracleCreateSql, platform) :
          /\ Send(OracleCreateSql, a)
          /\ fpc' = IF a.ok THEN "probe" ELSE "error"
    /\ UNCHANGED fnRet
    /\ SessionUnchanged

\* execute_sql_via_mindsdb(test_sql, timeout=10), then yield
OracleProbe ==
    /\ suite = "oracle_tpch" /\ fpc = "probe"
    /\ \E a \in execute_sql_via_mindsdb(Cmd("SELECT", "1", ""), platform) :
          /\ Send(Cmd("SELECT", "1", ""), a)
          /\ fpc' = IF a.ok THEN "yield" ELSE "error"
    /\ UNCHANGED fnRet
    /\ SessionUnchanged

\* the session ends and the generator is resumed: nothing follows the yield
OracleFinalise ==
    /\ suite = "oracle_tpch" /\ fpc = "yield"
    /\ fpc' = "done"
    /\ UNCHANGED <<issued, platform, fnRet>>
    /\ SessionUnchanged

\* _create_or_replace_mssql_datasource: the first CREATE and the except
\* clause up to the exists test
MssqlCreate ==
    /\ suite = "mssql" /\ fpc = "create"
    /\ \E a \in execute_sql_via_mindsdb(MssqlCreateSql, platform) :
          /\ Send(MssqlCreateSql, a)
          /\ IF a.ok THEN fpc' = "verify" /\ fnRet' = "returned"
             ELSE IF ExistsTest(a.msg) THEN fpc' = "drop" /\ UNCHANGED fnRet
             ELSE fpc' = "error" /\ fnRet' = "raised"
    /\ SessionUnchanged

\* the DROP inside try/except: a failure is logged and ignored
MssqlDrop ==
    /\ suite = "mssql" /\ fpc = "drop"
    /\ \E a \in execute_sql_via_mindsdb(MssqlDropSql, platform) :
          Send(MssqlDropSql, a)
    /\ fpc' = "recreate"
    /\ UNCHANGED fnRet
    /\ SessionUnchanged

\* the second CREATE: a failure propagates
MssqlRecreate ==
    /\ suite = "mssql" /\ fpc = "recreate"
    /\ \E a \in execute_sql_via_mindsdb(MssqlCreateSql, platform) :
          /\ Send(MssqlCreateSql, a)
          /\ IF a.ok THEN fpc' = "verify" /\ fnRet' = "returned"
             ELSE fpc' = "error" /\ fnRet' = "raised"
    /\ SessionUnchanged

\* _verify_remote_query_works, then yield
MssqlVerify ==
    /\ suite = "mssql" /\ fpc = "verify"
    /\ \E a \in execute_sql_via_mindsdb(Cmd("SHOW TABLES", MSSQL_DB, ""),
                                         platform) :
          /\ Send(Cmd("SHOW TABLES", MSSQL_DB, ""), a)
          /\ fpc' = IF a.ok THEN "yield" ELSE "error"
    /\ UNCHANGED fnRet
    /\ SessionUnchanged

\* the teardown after the yield: DROP inside try/except
MssqlTeardown ==
    /\ suite = "mssql" /\ fpc = "yield"
    /\ \E a \in execute_sql_via_mindsdb(MssqlDropSql, platform) :
          Send(MssqlDropSql, a)
    /\ fpc' = "done"
    /\ UNCHANGED fnRet
    /\ SessionUnchanged

Logged(cmd, a) == [cmd |-> cmd, ok |-> a.ok, msg |-> a.msg]

\* test_create_region_view: the CREATE OR REPLACE VIEW and, when it did not
\* raise, the SELECT from the view
KbCreateView ==
    /\ suite = "kb" /\ fpc = "view"
    /\ LET create == Cmd("CREATE OR REPLACE VIEW", "oracle_regions_view", "")
           select == Cmd("SELECT", "oracle_regions_view", "")
       IN \E a \in execute_sql_via_mindsdb(create, platform) :
             IF a.ok
             THEN \E b \in execute_sql_via_mindsdb(select, a.names) :
                     /\ issued' = issued \o <<Logged(create, a),
                                               Logged(select, b)>>
                     /\ platform' = b.names
             ELSE Send(create, a)
    /\ fpc' = "create_kb"
    /\ UNCHANGED fnRet
    /\ SessionUnchanged

\* test_create_knowledge_base: an already-exists error is tolerated, any
\* other error fails the test; the next test runs in both cases
KbCreate ==
    /\ suite = "kb" /\ fpc = "create_kb"
    /\ \E a \in execute_sql_via_mindsdb(
                    Cmd("CREATE KNOWLEDGE BASE", KbCreateName, ""),
                    platform) :
          Send(Cmd("CREATE KNOWLEDGE BASE", KbCreateName, ""), a)
    /\ fpc' = "query1"
    /\ UNCHANGED fnRet
    /\ SessionUnchanged

\* the three test_query_kb_ tests
KbQuery ==
    /\ suite = "kb" /\ fpc \in {"query1", "query2", "query3"}
    /\ \E a \in execute_sql_via_mindsdb(Cmd("SELECT", KbCreateName, ""),
                                         platform) :
          Send(Cmd("SELECT", KbCreateName, ""), a)
    /\ fpc' = CASE fpc = "query1" -> "query2"
                [] fpc = "query2" -> "query3"
                [] OTHER -> "cleanup_kb"
    /\ UNCHANGED fnRet
    /\ SessionUnchanged

\* TestCleanup.test_cleanup_knowledge_base
KbCleanup ==
    /\ suite = "kb" /\ fpc = "cleanup_kb"
    /\ \E a \in execute_sql_via_mindsdb(
                    Cmd("DROP KNOWLEDGE BASE", KbCleanupName, "IF EXISTS"),
                    platform) :
          Send(Cmd("DROP KNOWLEDGE BASE", KbCleanupName, "IF EXISTS"), a)
    /\ fpc' = "cleanup_model"
    /\ UNCHANGED fnRet
    /\ SessionUnchanged

\* TestCleanup.test_cleanup_llm_model
KbCleanupModel ==
    /\ suite = "kb" /\ fpc = "cleanup_model"
    /\ \E a \in execute_sql_via_mindsdb(
                    Cmd("DROP MODEL", "ollama_tinyllama", "IF EXISTS"),
                    platform) :
          Send(Cmd("DROP MODEL", "ollama_tinyllama", "IF EXISTS"), a)
    /\ fpc' = "done"
    /\ UNCHANGED fnRet
    /\ SessionUnchanged

\* what a platform used by earlier sessions can hold
PlatformNames ==
    {ORACLE_TPCH_DB, MSSQL_DB, KbCreateName, KbCleanupName, "ollama_tinyllama"}

InitSession ==
    /\ suite \in {"oracle_tpch", "mssql", "kb"}
    /\ fpc = IF suite = "kb" THEN "view" ELSE "create"
    /\ issued = <<>>
    /\ platform \in SUBSET PlatformNames
    /\ platform0 = platform
    /\ fnRet = "none"
    /\ readme = NoFile
    /\ xml = NoXml
    /\ xmlBefore = xml
    /\ SpliceIdle
    /\ ParseIdle
    /\ StatusIdle
    /\ MainIdle
    /\ ConcIdle
    /\ ReadyIdle

NextSession ==
    \/ OracleCreate
    \/ OracleProbe
    \/ OracleFinalise
    \/ MssqlCreate
    \/ MssqlDrop
    \/ MssqlRecreate
    \/ MssqlVerify
    \/ MssqlTeardown
    \/ KbCreateView
    \/ KbCreate
    \/ KbQuery
    \/ KbCleanup
    \/ KbCleanupModel

SpecSession == InitSession /\ [][NextSession]_vars

(***************************************************************************)
(* Claims about the fixtures                                               *)
(***************************************************************************)
Sent == 1..Len(issued)
IsCmd(i, verb, name) ==
    issued[i].cmd.verb = verb /\ issued[i].cmd.name = name

(***************************************************************************)
(* C25: once the Oracle TPC-H mindsdb_connection fixture is finalised, a   *)
(* DROP DATABASE for ORACLE_TPCH_DB has been issued.                       *)
(***************************************************************************)
C25_DropAfterFinalise ==
    (suite = "oracle_tpch" /\ fpc = "done") =>
        \E i \in Sent : IsCmd(i, "DROP DATABASE", ORACLE_TPCH_DB)

(***************************************************************************)
(* C26: the Oracle TPC-H fixture creates its datasource with CREATE        *)
(* DATABASE IF NOT EXISTS, so its set-up does not fail because a           *)
(* datasource of that name exists already.                                 *)
(***************************************************************************)
C26_CreateIfNotExists ==
    (suite = "oracle_tpch") =>
        \A i \in Sent :
           IsCmd(i, "CREATE DATABASE", ORACLE_TPCH_DB) =>
              /\ issued[i].cmd.clause = "IF NOT EXISTS"
              /\ (ORACLE_TPCH_DB \in platform0) =>
                    ~Contains(<<"already", " ", "exists">>, issued[i].msg)

\* the statements _create_or_replace_mssql_datasource has sent: those
\* before the SHOW TABLES of _verify_remote_query_works
FnLen ==
    IF \E i \in Sent : issued[i].cmd.verb = "SHOW TABLES"
    THEN (CHOOSE i \in Sent : issued[i].cmd.verb = "SHOW TABLES") - 1
    ELSE Len(issued)

FnEnded == suite = "mssql" /\ fnRet # "none"
FnCreates == {i \in 1..FnLen : IsCmd(i, "CREATE DATABASE", MSSQL_DB)}
FnDrops == {i \in 1..FnLen : IsCmd(i, "DROP DATABASE", MSSQL_DB)}

\* CREATE, DROP, CREATE and nothing else
Replaced ==
    /\ FnLen = 3
    /\ FnCreates = {1, 3}
    /\ FnDrops = {2}
    /\ fnRet = IF issued[3].ok THEN "returned" ELSE "raised"

\* the first CREATE failed and its error left the function
Propagated ==
    /\ FnLen = 1
    /\ FnDrops = {}
    /\ fnRet = "raised"

SaysAlreadyExists(msg) == Contains(<<"already", " ", "exists">>, msg)
MentionsExists(msg) == Contains(<<"exists">>, msg)

FnAlways ==
    /\ (fnRet = "returned") =>
          /\ FnLen \in FnCreates
          /\ issued[FnLen].ok
    /\ Cardinality(FnCreates) <= 2
    /\ Cardinality(FnDrops) <= 1
    /\ FnCreates \cup FnDrops = 1..FnLen

C28_WitnessDropFailed ==
    /\ FnEnded
    /\ Replaced
    /\ ~issued[2].ok

\* the first CREATE failed on a text without "exists"
C28_WitnessPropagated ==
    /\ FnEnded
    /\ Propagated
    /\ issued[1].msg = OtherMsg

(***************************************************************************)
(* C29: after the knowledge base tests ran in file order, the cleanup test *)
(* has issued a DROP for the knowledge base name the create test used, and *)
(* a knowledge base the create test created is gone.                       *)
(***************************************************************************)
C29_CleanupDropsCreated ==
    (suite = "kb" /\ fpc = "done") =>
        /\ \E i, j \in Sent :
              /\ i < j
              /\ issued[i].cmd.verb = "CREATE KNOWLEDGE BASE"
              /\ issued[j].cmd.verb = "DROP KNOWLEDGE BASE"
              /\ issued[j].cmd.name = issued[i].cmd.name
        /\ \A i \in Sent :
              (issued[i].cmd.verb = "CREATE KNOWLEDGE BASE" /\ issued[i].ok)
                 => issued[i].cmd.name \notin platform

(***************************************************************************)
(* C30: every datasource the MS SQL mindsdb_connection fixture created is  *)
(* followed by a DROP DATABASE for it before the fixture finishes, also    *)
(* when the SHOW TABLES verification fails after the create.               *)
(***************************************************************************)
C30_EveryCreateDropped ==
    (suite = "mssql" /\ fpc \in {"done", "error"}) =>
        \A i \in Sent :
           (IsCmd(i, "CREATE DATABASE", MSSQL_DB) /\ issued[i].ok) =>
              \E j \in Sent : j > i /\ IsCmd(j, "DROP DATABASE", MSSQL_DB)

====
